---- MODULE Spec2Model ----
(***************************************************************************)
(* A model of the getpocket API client of pocket.go.                       *)
(*                                                                         *)
(* A Go string is modelled as a sequence of one-character strings, so that *)
(* formatting (fmt.Sprintf), joining (strings.Join) and form decoding      *)
(* (url.ParseQuery) are computed character by character.  Error values are *)
(* modelled by their message; "nil" is the nil error.                      *)
(***************************************************************************)
EXTENDS Integers, Sequences, FiniteSets, TLC

\* ------------------------------------------------------------------------
\* Bounds of the model
\* ------------------------------------------------------------------------

\* the longest tag list a caller passes to Add
MaxTags == 2

\* the largest number of '&'-separated pairs in a response body
MaxPairs == 2

\* ------------------------------------------------------------------------
\* Package constants (pocket.go, const block)
\* ------------------------------------------------------------------------

StatusOK == 200

\* defaultTimeout = 5 * time.Second, in seconds
defaultTimeout == 5

host == "https://getpocket.com/v3"

endpointAdd == "/add"

endpointRequestToken == "/oauth/request"

endpointAuthorize == "/oauth/authorize"

\* "https://getpocket.com/auth/authorize?request_token=%s&redirect_uri=%s"
authorizeUrl ==
    << "h","t","t","p","s",":","/","/",
       "g","e","t","p","o","c","k","e","t",".","c","o","m",
       "/","a","u","t","h","/","a","u","t","h","o","r","i","z","e","?",
       "r","e","q","u","e","s","t","_","t","o","k","e","n","=","%","s",
       "&","r","e","d","i","r","e","c","t","_","u","r","i","=","%","s" >>

\* the form keys the client reads from a response
KeyCode == << "c","o","d","e" >>

KeyAccessToken == << "a","c","c","e","s","s","_","t","o","k","e","n" >>

KeyUsername == << "u","s","e","r","n","a","m","e" >>

\* ------------------------------------------------------------------------
\* Library functions the client calls, computed as the library computes them
\* ------------------------------------------------------------------------

\* strings.Join(elems, sep)
RECURSIVE Join(_, _)
Join(elems, sep) ==
    IF elems = << >> THEN << >>
    ELSE IF Len(elems) = 1 THEN elems[1]
    ELSE elems[1] \o sep \o Join(Tail(elems), sep)

\* fmt.Sprintf(format, args...) for a format holding literal characters and
\* the verb %s; the operands are copied, never scanned for verbs.
RECURSIVE Sprintf(_, _)
Sprintf(format, args) ==
    IF format = << >> THEN << >>
    ELSE IF Len(format) >= 2 /\ format[1] = "%" /\ format[2] = "s"
         THEN (IF args = << >>
               THEN << "%","!","s","(","M","I","S","S","I","N","G",")" >>
                    \o Sprintf(SubSeq(format, 3, Len(format)), args)
               ELSE args[1] \o Sprintf(SubSeq(format, 3, Len(format)), Tail(args)))
    ELSE << format[1] >> \o Sprintf(Tail(format), args)

\* the hexadecimal digits, by value
HexDigits ==
    << "0","1","2","3","4","5","6","7","8","9","a","b","c","d","e","f" >>

UpperHexDigits == << "A","B","C","D","E","F" >>

\* net/url ishex
ishex(c) ==
    \/ \E i \in 1..Len(HexDigits) : HexDigits[i] = c
    \/ \E i \in 1..Len(UpperHexDigits) : UpperHexDigits[i] = c

\* net/url unhex
unhex(c) ==
    IF \E i \in 1..Len(HexDigits) : HexDigits[i] = c
    THEN (CHOOSE i \in 1..Len(HexDigits) : HexDigits[i] = c) - 1
    ELSE (CHOOSE i \in 1..Len(UpperHexDigits) : UpperHexDigits[i] = c) + 9

\* the ASCII letters, in code order
UpperLetters ==
    << "A","B","C","D","E","F","G","H","I","J","K","L","M",
       "N","O","P","Q","R","S","T","U","V","W","X","Y","Z" >>

LowerLetters ==
    << "a","b","c","d","e","f","g","h","i","j","k","l","m",
       "n","o","p","q","r","s","t","u","v","w","x","y","z" >>

\* the character of a decoded byte: digits and letters as themselves, the
\* space as itself, any other byte by its code
Chr(n) ==
    IF n = 32 THEN " "
    ELSE IF n >= 48 /\ n <= 57 THEN HexDigits[n - 47]
    ELSE IF n >= 65 /\ n <= 90 THEN UpperLetters[n - 64]
    ELSE IF n >= 97 /\ n <= 122 THEN LowerLetters[n - 96]
    ELSE "byte" \o ToString(n)

\* url.QueryUnescape(s): '+' becomes a space, %XX becomes the byte XX, and a
\* '%' not followed by two hexadecimal digits is an EscapeError.
RECURSIVE QueryUnescape(_)
QueryUnescape(s) ==
    IF s = << >> THEN [str |-> << >>, err |-> "nil"]
    ELSE IF s[1] = "%"
         THEN (IF Len(s) < 3 \/ ~ishex(s[2]) \/ ~ishex(s[3])
               THEN [str |-> << >>, err |-> "invalid URL escape"]
               ELSE LET rest == QueryUnescape(SubSeq(s, 4, Len(s)))
                    IN  IF rest.err # "nil" THEN rest
                        ELSE [str |-> << Chr(16 * unhex(s[2]) + unhex(s[3])) >>
                                          \o rest.str,
                              err |-> "nil"])
    ELSE LET rest == QueryUnescape(Tail(s))
         IN  IF rest.err # "nil" THEN rest
             ELSE [str |-> << (IF s[1] = "+" THEN " " ELSE s[1]) >> \o rest.str,
                   err |-> "nil"]

\* strings.IndexByte: the position of the first c in s, 0 when there is none
IndexByte(s, c) ==
    IF \E i \in 1..Len(s) : s[i] = c
    THEN CHOOSE i \in 1..Len(s) : s[i] = c /\ \A j \in 1..(i - 1) : s[j] # c
    ELSE 0

\* strings.Cut(s, sep) for a one-character separator
Cut(s, sep) ==
    LET i == IndexByte(s, sep)
    IN  IF i = 0 THEN [before |-> s, after |-> << >>]
        ELSE [before |-> SubSeq(s, 1, i - 1), after |-> SubSeq(s, i + 1, Len(s))]

\* url.Values{}: a map from keys to the list of their values
EmptyValues == << >>

\* m[key] = append(m[key], value)
AppendValue(m, key, value) ==
    IF key \in DOMAIN m THEN [m EXCEPT ![key] = Append(@, value)]
    ELSE m @@ (key :> << value >>)

\* url.Values.Get(key): the first value of key, "" when there is none
Get(m, key) ==
    IF key \in DOMAIN m /\ m[key] # << >> THEN m[key][1] ELSE << >>

\* url.ParseQuery(query): every '&'-separated pair is cut at its first '=',
\* key and value are unescaped, a pair that fails is skipped, and the first
\* error is returned with the pairs that parsed.  The bodies of the model hold
\* no ';', which versions of the library treat differently.
RECURSIVE parseQuery(_, _, _)
parseQuery(m, err, query) ==
    IF query = << >> THEN [values |-> m, err |-> err]
    ELSE LET pair  == Cut(query, "&")
             kv    == Cut(pair.before, "=")
             key   == QueryUnescape(kv.before)
             value == QueryUnescape(kv.after)
         IN  IF pair.before = << >> THEN parseQuery(m, err, pair.after)
             ELSE IF key.err # "nil"
                  THEN parseQuery(m, IF err = "nil" THEN key.err ELSE err, pair.after)
             ELSE IF value.err # "nil"
                  THEN parseQuery(m, IF err = "nil" THEN value.err ELSE err, pair.after)
             ELSE parseQuery(AppendValue(m, key.str, value.str), err, pair.after)

ParseQuery(query) == parseQuery(EmptyValues, "nil", query)

\* ------------------------------------------------------------------------
\* Inputs: what callers pass and what the transport answers
\* ------------------------------------------------------------------------

\* consumer keys given to NewClient
ConsumerKeys == { << >>, << "k" >>, << "k","2" >> }

\* request tokens and redirect URLs given by callers; some hold the
\* characters a format or a query would treat specially
Strings == { << >>, << "a" >>, << "%","s" >>, << "a","&","b" >> }

\* context.Context arguments: a nil context, or a live one
Contexts == { "nil", "background" }

\* AddInput fields
AddURLs == { << >>, << "u" >> }

AddTitles == { << >>, << "e" >> }

AddAccessTokens == { << >>, << "t" >> }

TagValues == { << "q" >>, << "r","t" >> }

\* all sequences over S of length at most n
RECURSIVE SeqsUpTo(_, _)
SeqsUpTo(S, n) ==
    IF n = 0 THEN { << >> }
    ELSE LET shorter == SeqsUpTo(S, n - 1)
         IN  shorter \cup { Append(q, x) : q \in shorter, x \in S }

TagLists == SeqsUpTo(TagValues, MaxTags)

AddInputs ==
    [URL : AddURLs, Title : AddTitles, Tags : TagLists, AccessToken : AddAccessTokens]

\* the pairs a response body is made of: present, empty and absent values,
\* escaped keys and values, an invalid escape, an empty pair
Pairs ==
    { KeyCode \o << "=","x" >>,
      KeyCode \o << "=" >>,
      KeyCode,
      KeyCode \o << "=","%","4","1","+","y" >>,
      << "c","%","6","f","d","e","=","z" >>,
      KeyAccessToken \o << "=","x" >>,
      KeyAccessToken \o << "=" >>,
      KeyUsername \o << "=","u" >>,
      << "x","=","%" >>,
      << >> }

\* response bodies: up to MaxPairs pairs joined by '&'
Bodies == { Join(ps, << "&" >>) : ps \in SeqsUpTo(Pairs, MaxPairs) }

StatusCodes == { 200, 201, 400, 500 }

XErrors == { "", "Invalid consumer key" }

\* what c.client.Do and the reading of the response body yield: a transport
\* error, or a response whose body reads in full or fails while being read
Replies ==
    { [kind |-> "error", StatusCode |-> 0, XError |-> "", readFails |-> FALSE,
       Body |-> << >>] }
    \cup [kind : {"response"}, StatusCode : StatusCodes, XError : {""},
          readFails : {FALSE}, Body : Bodies]
    \cup [kind : {"response"}, StatusCode : StatusCodes, XError : XErrors,
          readFails : {TRUE}, Body : {<< >>}]
    \cup [kind : {"response"}, StatusCode : StatusCodes \ {StatusOK},
          XError : XErrors, readFails : {FALSE}, Body : {<< >>}]

\* ------------------------------------------------------------------------
\* The client (pocket.go)
\* ------------------------------------------------------------------------

\* the json names of the request structs' fields; the options after the
\* comma of a tag do not change the name
jsonNames ==
    [ConsumerKey |-> "consumer_key", RedirectUrl |-> "redirect_uri",
     Code |-> "code", URL |-> "url", Title |-> "title", Tags |-> "tags",
     AccessToken |-> "access_token"]

\* json.Marshal of a request struct: the object of its fields under their
\* json names.  The fields are strings, so it never fails.
Marshal(v) ==
    [name \in { jsonNames[f] : f \in DOMAIN v } |->
        v[CHOOSE f \in DOMAIN v : jsonNames[f] = name]]

\* validate without its access-token check
validate_urlOnly(i) ==
    IF i.URL = << >> THEN "required URL is empty" ELSE "nil"

\* AddInput.validate
validate(i) ==
    IF i.URL = << >> THEN "required URL is empty"
    ELSE IF i.AccessToken = << >> THEN "access token is empty"
    ELSE "nil"

\* generateRequest joining the tags with spaces
generateRequest_spaces(i, consumerKey) ==
    [URL         |-> i.URL,
     Tags        |-> Join(i.Tags, << " " >>),
     Title       |-> i.Title,
     AccessToken |-> i.AccessToken,
     ConsumerKey |-> consumerKey]

\* AddInput.generateRequest
generateRequest(i, consumerKey) ==
    [URL         |-> i.URL,
     Tags        |-> Join(i.Tags, << "," >>),
     Title       |-> i.Title,
     AccessToken |-> i.AccessToken,
     ConsumerKey |-> consumerKey]

\* no client: the nil *Client
NilClient == [nil |-> TRUE]

\* NewClient without its check of the key
NewClient_unchecked(consumerKey) ==
    [client |-> [nil |-> FALSE, Timeout |-> defaultTimeout,
                 consumerKey |-> consumerKey],
     err |-> "nil"]

\* NewClient
NewClient(consumerKey) ==
    IF consumerKey = << >>
    THEN [client |-> NilClient, err |-> "consumer key is empty"]
    ELSE [client |-> [nil |-> FALSE, Timeout |-> defaultTimeout,
                      consumerKey |-> consumerKey],
          err |-> "nil"]

\* the Close deferred only after the status check
Deferred_afterStatus(exit) ==
    IF exit \in {"newrequest", "do", "status"} THEN { } ELSE { "resp.Body.Close" }

\* the deferred calls in force when doHTTP returns at exit: the body's Close
\* is deferred once c.client.Do has returned a response
Deferred(exit) ==
    IF exit \in {"newrequest", "do"} THEN { } ELSE { "resp.Body.Close" }

\* what doHTTP returns at exit: the values and the error, the requests it
\* sent, and how many response bodies it obtained and closed
doHTTPReturn(exit, values, err, requests) ==
    [exit     |-> exit,
     values   |-> values,
     err      |-> err,
     requests |-> requests,
     opened   |-> IF exit \in {"newrequest", "do"} THEN 0 ELSE 1,
     closed   |-> IF "resp.Body.Close" \in Deferred(exit) THEN 1 ELSE 0]

\* Client.doHTTP
doHTTP(ctx, endpoint, body, reply) ==
    LET req == [Method      |-> "POST",
                URL         |-> host \o endpoint,
                ContentType |-> "application/json; charset=UTF8",
                Body        |-> Marshal(body)]
        parsed == ParseQuery(reply.Body)
    IN  IF ctx = "nil"
        THEN doHTTPReturn("newrequest", EmptyValues,
                          "failed to send http request", << >>)
        ELSE IF reply.kind = "error"
        THEN doHTTPReturn("do", EmptyValues,
                          "failed to send message request", << req >>)
        ELSE IF reply.StatusCode # StatusOK
        THEN doHTTPReturn("status", EmptyValues,
                          "API Error: " \o reply.XError, << req >>)
        ELSE IF reply.readFails
        THEN doHTTPReturn("read", EmptyValues,
                          "failed to read response body", << req >>)
        ELSE IF parsed.err # "nil"
        THEN doHTTPReturn("parse", EmptyValues,
                          "failed to parse response body", << req >>)
        ELSE doHTTPReturn("ok", parsed.values, "nil", << req >>)

\* GetRequestToken without its check of an empty code
GetRequestToken_unchecked(c, ctx, redirectUrl, reply) ==
    LET inp == [ConsumerKey |-> c.consumerKey, RedirectUrl |-> redirectUrl]
        d   == doHTTP(ctx, endpointRequestToken, inp, reply)
    IN  IF d.err # "nil"
        THEN [http |-> << d >>, token |-> << >>, err |-> d.err]
        ELSE [http |-> << d >>, token |-> Get(d.values, KeyCode), err |-> "nil"]

\* Client.GetRequestToken
GetRequestToken(c, ctx, redirectUrl, reply) ==
    LET inp == [ConsumerKey |-> c.consumerKey, RedirectUrl |-> redirectUrl]
        d   == doHTTP(ctx, endpointRequestToken, inp, reply)
    IN  IF d.err # "nil"
        THEN [http |-> << d >>, token |-> << >>, err |-> d.err]
        ELSE IF Get(d.values, KeyCode) = << >>
        THEN [http |-> << d >>, token |-> << >>,
              err |-> "empty request token in API response"]
        ELSE [http |-> << d >>, token |-> Get(d.values, KeyCode), err |-> "nil"]

\* GetAuthorizationURL passing its operands in the wrong order
GetAuthorizationURL_swapped(requestToken, redirectUrl) ==
    IF requestToken = << >> \/ redirectUrl = << >>
    THEN [http |-> << >>, url |-> << >>, err |-> "empty request token"]
    ELSE [http |-> << >>,
          url  |-> Sprintf(authorizeUrl, << redirectUrl, requestToken >>),
          err  |-> "nil"]

\* Client.GetAuthorizationURL
GetAuthorizationURL(requestToken, redirectUrl) ==
    IF requestToken = << >> \/ redirectUrl = << >>
    THEN [http |-> << >>, url |-> << >>, err |-> "empty request token"]
    ELSE [http |-> << >>,
          url  |-> Sprintf(authorizeUrl, << requestToken, redirectUrl >>),
          err  |-> "nil"]

\* no response: the nil *AuthorizeResponse
NilResponse == [nil |-> TRUE]

\* Authorize requiring a username as well
Authorize_needsUsername(c, ctx, requestToken, reply) ==
    IF requestToken = << >>
    THEN [http |-> << >>, resp |-> NilResponse, err |-> "empty request token"]
    ELSE LET inp == [Code |-> requestToken, ConsumerKey |-> c.consumerKey]
             d   == doHTTP(ctx, endpointAuthorize, inp, reply)
             accessToken == Get(d.values, KeyAccessToken)
             username    == Get(d.values, KeyUsername)
         IN  IF d.err # "nil"
             THEN [http |-> << d >>, resp |-> NilResponse, err |-> d.err]
             ELSE IF accessToken = << >> \/ username = << >>
             THEN [http |-> << d >>, resp |-> NilResponse,
                   err |-> "empty access token in API response"]
             ELSE [http |-> << d >>,
                   resp |-> [nil |-> FALSE, Access_token |-> accessToken,
                             Username |-> username],
                   err  |-> "nil"]

\* Client.Authorize
Authorize(c, ctx, requestToken, reply) ==
    IF requestToken = << >>
    THEN [http |-> << >>, resp |-> NilResponse, err |-> "empty request token"]
    ELSE LET inp == [Code |-> requestToken, ConsumerKey |-> c.consumerKey]
             d   == doHTTP(ctx, endpointAuthorize, inp, reply)
             accessToken == Get(d.values, KeyAccessToken)
             username    == Get(d.values, KeyUsername)
         IN  IF d.err # "nil"
             THEN [http |-> << d >>, resp |-> NilResponse, err |-> d.err]
             ELSE IF accessToken = << >>
             THEN [http |-> << d >>, resp |-> NilResponse,
                   err |-> "empty access token in API response"]
             ELSE [http |-> << d >>,
                   resp |-> [nil |-> FALSE, Access_token |-> accessToken,
                             Username |-> username],
                   err  |-> "nil"]

\* Client.Add
Add(c, ctx, input, reply) ==
    IF validate(input) # "nil"
    THEN [http |-> << >>, err |-> validate(input)]
    ELSE LET req == generateRequest(input, c.consumerKey)
             d   == doHTTP(ctx, endpointAdd, req, reply)
         IN  [http |-> << d >>, err |-> d.err]

\* ------------------------------------------------------------------------
\* State
\* ------------------------------------------------------------------------

VARIABLES
    client,   \* the *Client NewClient returned, NilClient before
    call,     \* the call in progress or just returned: its name and arguments
    reply,    \* what the transport answered to that call's request
    result    \* what that call returned

vars == << client, call, reply, result >>

NoCall == [op |-> "none"]

\* the transport was not asked
NoReply ==
    [kind |-> "none", StatusCode |-> 0, XError |-> "", readFails |-> FALSE,
     Body |-> << >>]

NoResult == [http |-> << >>, err |-> "nil"]

\* the requests a call sent, over its invocations of doHTTP
RECURSIVE Requests(_)
Requests(http) ==
    IF http = << >> THEN << >> ELSE http[1].requests \o Requests(Tail(http))

\* the transport answers exactly the calls that send a request
Answers(rep, res) == (rep = NoReply) <=> (Requests(res.http) = << >>)

Init ==
    /\ client = NilClient
    /\ call = NoCall
    /\ reply = NoReply
    /\ result = NoResult

\* a caller constructs the client
CallNewClient ==
    /\ call = NoCall
    /\ client = NilClient
    /\ \E consumerKey \in ConsumerKeys :
         LET r == NewClient(consumerKey)
         IN  /\ call' = [op |-> "NewClient", consumerKey |-> consumerKey]
             /\ client' = r.client
             /\ result' = [http |-> << >>, err |-> r.err]
             /\ reply' = NoReply

\* a caller asks for a request token
CallGetRequestToken ==
    /\ call = NoCall
    /\ client # NilClient
    /\ \E ctx \in Contexts, redirectUrl \in Strings, rep \in Replies \cup {NoReply} :
         LET r == GetRequestToken(client, ctx, redirectUrl, rep)
         IN  /\ Answers(rep, r)
             /\ call' = [op |-> "GetRequestToken", ctx |-> ctx,
                         redirectUrl |-> redirectUrl]
             /\ reply' = rep
             /\ result' = r
             /\ UNCHANGED client

\* a caller builds the authorization URL
CallGetAuthorizationURL ==
    /\ call = NoCall
    /\ client # NilClient
    /\ \E requestToken \in Strings, redirectUrl \in Strings :
         /\ call' = [op |-> "GetAuthorizationURL", requestToken |-> requestToken,
                     redirectUrl |-> redirectUrl]
         /\ reply' = NoReply
         /\ result' = GetAuthorizationURL(requestToken, redirectUrl)
         /\ UNCHANGED client

\* a caller exchanges a request token for an access token
CallAuthorize ==
    /\ call = NoCall
    /\ client # NilClient
    /\ \E ctx \in Contexts, requestToken \in Strings, rep \in Replies \cup {NoReply} :
         LET r == Authorize(client, ctx, requestToken, rep)
         IN  /\ Answers(rep, r)
             /\ call' = [op |-> "Authorize", ctx |-> ctx,
                         requestToken |-> requestToken]
             /\ reply' = rep
             /\ result' = r
             /\ UNCHANGED client

\* a caller adds an item
CallAdd ==
    /\ call = NoCall
    /\ client # NilClient
    /\ \E ctx \in Contexts, input \in AddInputs, rep \in Replies \cup {NoReply} :
         LET r == Add(client, ctx, input, rep)
         IN  /\ Answers(rep, r)
             /\ call' = [op |-> "Add", ctx |-> ctx, input |-> input]
             /\ reply' = rep
             /\ result' = r
             /\ UNCHANGED client

\* the caller is done with what the call returned: nothing of a call stays
\* in the client
Release ==
    /\ call # NoCall
    /\ call' = NoCall
    /\ reply' = NoReply
    /\ result' = NoResult
    /\ UNCHANGED client

Next ==
    \/ CallNewClient
    \/ CallGetRequestToken
    \/ CallGetAuthorizationURL
    \/ CallAuthorize
    \/ CallAdd
    \/ Release

Spec == Init /\ [][Next]_vars

\* ------------------------------------------------------------------------
\* Properties
\* ------------------------------------------------------------------------

\* the call that just returned received a response from the transport
GotResponse == reply.kind = "response"

\* C1: GetRequestToken called with an empty redirect URL returns an error,
\* whatever the transport answers.
C1_EmptyRedirectFails ==
    (call.op = "GetRequestToken" /\ call.redirectUrl = << >>)
        => result.err # "nil"

\* C2: doHTTP returns an API error exactly when the response status is not
\* 2xx, and for every status 200..299 goes on to read and parse the body.
C2_ApiErrorIffNon2xx ==
    \A i \in DOMAIN result.http :
        GotResponse =>
            /\ (result.http[i].exit = "status")
                   <=> (reply.StatusCode \notin 200..299)
            /\ (reply.StatusCode \in 200..299)
                   => result.http[i].exit \in {"read", "parse", "ok"}

\* C3: a call sends at most one request, and none when validation fails:
\* Authorize with an empty request token, Add with an empty URL or an empty
\* access token, return an error with no request sent.
C3_AtMostOneRequest ==
    /\ Len(Requests(result.http)) <= 1
    /\ (Requests(result.http) = << >>) <=> (reply = NoReply)
    /\ (call.op = "Authorize" /\ call.requestToken = << >>)
           => (result.err # "nil" /\ Requests(result.http) = << >>)
    /\ (call.op = "Add"
        /\ (call.input.URL = << >> \/ call.input.AccessToken = << >>))
           => (result.err # "nil" /\ Requests(result.http) = << >>)

\* C3 witness: Add with a URL and no access token has returned.
C3_Witness ==
    /\ call.op = "Add"
    /\ call.input.URL # << >>
    /\ call.input.AccessToken = << >>
    /\ result.err = "access token is empty"

\* C4: Add with a non-empty URL and access token succeeds whenever the
\* response status is 200 and the body was read, whatever the body holds.
C4_AddSucceedsOn200 ==
    (/\ call.op = "Add"
     /\ call.input.URL # << >>
     /\ call.input.AccessToken # << >>
     /\ GotResponse
     /\ reply.StatusCode = 200
     /\ ~reply.readFails)
        => result.err = "nil"

\* C5: GetRequestToken returns the code of the parsed response exactly when
\* doHTTP succeeded and the code is non-empty; otherwise, and on any status
\* other than 200, it returns an error and the empty token.
C5_RequestTokenIsCode ==
    call.op = "GetRequestToken" =>
        LET d == result.http[1]
        IN  /\ Len(result.http) = 1
            /\ (result.err = "nil")
                   <=> (d.err = "nil" /\ Get(d.values, KeyCode) # << >>)
            /\ (result.err = "nil") => result.token = Get(d.values, KeyCode)
            /\ (result.err # "nil") => result.token = << >>
            /\ (GotResponse /\ reply.StatusCode # 200) => result.err # "nil"
            /\ (result.err = "nil") => KeyCode \in DOMAIN ParseQuery(reply.Body).values

\* C5 witness: an escaped code was returned decoded.
C5_Witness ==
    /\ call.op = "GetRequestToken"
    /\ reply.Body = KeyCode \o << "=","%","4","1","+","y" >>
    /\ result.err = "nil"
    /\ result.token = << "A"," ","y" >>

\* C6: Authorize with a non-empty request token and a successful doHTTP
\* returns {access_token, username} of the response exactly when access_token
\* is non-empty, the username as it is; otherwise an error and no response.
C6_AuthorizeResponse ==
    (call.op = "Authorize" /\ call.requestToken # << >>) =>
        LET d == result.http[1]
        IN  /\ Len(result.http) = 1
            /\ d.err = "nil" =>
                 /\ (result.err = "nil")
                        <=> (Get(d.values, KeyAccessToken) # << >>)
                 /\ (result.err = "nil") =>
                        result.resp =
                            [nil |-> FALSE,
                             Access_token |-> Get(d.values, KeyAccessToken),
                             Username |-> Get(d.values, KeyUsername)]
            /\ (result.err # "nil") => result.resp = NilResponse

\* C6 witness: a response without a username gave an empty Username.
C6_Witness ==
    /\ call.op = "Authorize"
    /\ reply.Body = KeyAccessToken \o << "=","x" >>
    /\ result.err = "nil"
    /\ result.resp.Access_token = << "x" >>
    /\ result.resp.Username = << >>

\* "https://getpocket.com/auth/authorize?request_token="
AuthorizePrefix ==
    << "h","t","t","p","s",":","/","/",
       "g","e","t","p","o","c","k","e","t",".","c","o","m",
       "/","a","u","t","h","/","a","u","t","h","o","r","i","z","e","?",
       "r","e","q","u","e","s","t","_","t","o","k","e","n","=" >>

\* "&redirect_uri="
AuthorizeMiddle ==
    << "&","r","e","d","i","r","e","c","t","_","u","r","i","=" >>

\* C7: GetAuthorizationURL sends nothing, fails exactly when the request
\* token or the redirect URL is empty, and otherwise returns the template
\* with both values substituted verbatim.
C7_AuthorizationURL ==
    call.op = "GetAuthorizationURL" =>
        /\ Requests(result.http) = << >>
        /\ reply = NoReply
        /\ (result.err # "nil")
               <=> (call.requestToken = << >> \/ call.redirectUrl = << >>)
        /\ (result.err = "nil") =>
               result.url = AuthorizePrefix \o call.requestToken
                                \o AuthorizeMiddle \o call.redirectUrl

\* C7 witness: a URL was built from operands holding '%', 's' and '&'.
C7_Witness ==
    /\ call.op = "GetAuthorizationURL"
    /\ call.requestToken = << "%","s" >>
    /\ call.redirectUrl = << "a","&","b" >>
    /\ result.err = "nil"

\* C8: NewClient fails exactly when the consumer key is empty, and otherwise
\* the client holds exactly that key, for as long as it lives.
C8_NewClient ==
    /\ call.op = "NewClient" =>
         /\ (result.err # "nil") <=> (call.consumerKey = << >>)
         /\ (result.err = "nil") =>
                (~client.nil /\ client.consumerKey = call.consumerKey)
         /\ (result.err # "nil") => client = NilClient
    /\ ~client.nil => client.consumerKey # << >>

\* C8 witness: a client was constructed with a two-character key.
C8_Witness ==
    /\ call.op = "NewClient"
    /\ call.consumerKey = << "k","2" >>
    /\ result.err = "nil"

\* the tags joined by commas, built from the left
CommaJoined(tags) ==
    LET F[i \in 0..Len(tags)] ==
            IF i = 0 THEN << >>
            ELSE IF i = 1 THEN tags[1]
            ELSE F[i - 1] \o << "," >> \o tags[i]
    IN  F[Len(tags)]

\* C9: the request Add sends carries the tags joined by commas in their
\* order (empty for no tags), with the input's URL, title and access token
\* and the client's consumer key.
C9_AddRequest ==
    (call.op = "Add" /\ Requests(result.http) # << >>) =>
        LET req == Requests(result.http)[1]
        IN  /\ req.URL = "https://getpocket.com/v3/add"
            /\ req.Body =
                 [url          |-> call.input.URL,
                  title        |-> call.input.Title,
                  tags         |-> CommaJoined(call.input.Tags),
                  access_token |-> call.input.AccessToken,
                  consumer_key |-> client.consumerKey]

\* C9 witness: a request was sent for an input with two tags.
C9_Witness ==
    /\ call.op = "Add"
    /\ call.input.Tags = << << "q" >>, << "r","t" >> >>
    /\ Requests(result.http) # << >>
    /\ Requests(result.http)[1].Body.tags = << "q", ",", "r", "t" >>

\* C10: every response body doHTTP obtained is closed when it returns, on
\* every exit path.
C10_BodiesClosed ==
    \A i \in DOMAIN result.http :
        /\ result.http[i].closed = result.http[i].opened
        /\ GotResponse => result.http[i].opened = 1

\* C10 witness: doHTTP returned on the failure to parse a body it obtained.
C10_Witness ==
    /\ result.http # << >>
    /\ result.http[1].exit = "parse"
    /\ result.http[1].opened = 1

====
